---- MODULE Spec2Model ----
(***************************************************************************)
(* Connection pool of postgres-cxx-client: Client.submit, the Channel      *)
(* (pending-Job queue and Worker slots), the Worker thread loop of         *)
(* src/src/Worker.cpp and pool teardown under the three shutdown policies; *)
(* and, on one connection, the asynchronous send/receive protocol of the   *)
(* Receiver and the Transaction handle with transact().                    *)
(***************************************************************************)
EXTENDS Integers, Sequences, FiniteSets, TLC

\* Bounds of the model.
MaxJobs == 2
MaxQueue == 1

\* The largest maxConcurrency modelled: the one poolBehaviour configures.
MaxConcurrency == 2

Jobs == 1..MaxJobs
WorkerIds == 1..MaxConcurrency
Policies == {"GRACEFUL", "DROP", "ABORT"}

\* Context: immutable pool configuration.  maxQueueSize is an option:
\* << >> when unset (unbounded), <<n>> when set to n.
Contexts ==
    [maxConcurrency : 0..MaxConcurrency,
     maxQueueSize   : {<< >>} \cup {<<n>> : n \in 0..MaxQueue},
     idleTimeout    : BOOLEAN,
     shutdownPolicy : Policies]

VARIABLES
    ctx,          \* the Context shared by Client, Channel and Workers
    queue,        \* Channel: pending Jobs, FIFO
    active,       \* Channel: Worker slots in the active set
    spawning,     \* Client thread: Worker whose run() it is inside (0: none)
    phase,        \* "up", "stopping" (shutdown begun), "down" (Workers destroyed)
    pc,           \* per Worker: position of its thread
    slot,         \* per Worker: slot_.job (0: empty)
    conn,         \* per Worker: the connection captured by its thread
    joinable,     \* per Worker: thread_.joinable()
    submitted,    \* number of submit calls made
    jstate,       \* per Job: where it is
    completions,  \* per Job: how many times its deferred handle was completed
    result,       \* per Job: what its deferred handle holds
    raised,       \* per Job: the error submit raised in the calling thread
    execs,        \* per Job: how many times a Worker called its function
    atShutdown,   \* per Job: jstate at the moment shutdown began
    liveThreads,  \* number of OS threads started by run() that have not returned
    replayed,     \* per Worker: the Context's prepared statements exist on
                  \* the session of its connection
    owner,        \* handle: the Receiver whose statement is in flight (0: idle)
    pending,      \* handle: result units not yet taken from the server
    prepared,     \* server session: names of its prepared statements
    okPrepared,   \* names whose preparing statement gave an OK result
    rstate,       \* per Receiver: "none", "Busy", "HasResult", "Done", "destroyed"
    rstmt,        \* per Receiver: the statement it was sent for
    runits,       \* per Receiver: the result units its statement produced
    last,         \* per Receiver: the Result its last receive returned
    nrecv,        \* per Receiver: number of receive calls made on it
    calls,        \* number of calls made on the connection
    lastCall,     \* the last call on the connection and how it ended
    lastExec,     \* the text of the last exec / execRaw and the data it gave
    db,           \* server: statements whose effects are applied for good
    work,         \* server: statements run in the open transaction block
    inTx,         \* server: a transaction block is open
    tx,           \* Transaction handle: "none", "open", "committed",
                  \* "droppedOpen", "droppedCommitted"
    issued,       \* statements issued for the Transaction since its begin
    since,        \* statements that succeeded inside the Transaction's block
    nstmt,        \* number of statements run on the connection
    tmode,        \* transact(): "idle", "running", "leaving"
    tlist,        \* transact(): the statements still to run
    tgiven,       \* transact(): the statements it was called with
    tran,         \* transact(): how many of them it has run
    lastCommit,   \* how the last commit call on the Transaction ended
    fields,       \* TypesCollector: the field types of the visited table type
    types         \* TypesCollector::types

vars == <<ctx, queue, active, spawning, phase, pc, slot, conn,
          joinable, submitted, jstate, completions, result, raised,
          execs, atShutdown, liveThreads, replayed,
          owner, pending, prepared, okPrepared, rstate, rstmt, runits, last,
          nrecv, calls, lastCall, lastExec,
          db, work, inTx, tx, issued, since, nstmt, tmode, tlist, tgiven,
          tran, lastCommit, fields, types>>

chanVars == <<queue, active>>
workerVars == <<pc, slot, conn, joinable, liveThreads, replayed>>
jobVars == <<jstate, completions, result, raised, execs>>
downVars == <<phase, atShutdown>>
poolVars == <<ctx, chanVars, spawning, workerVars, submitted, jobVars, downVars>>
recvVars == <<owner, pending, prepared, okPrepared, rstate, rstmt, runits,
              last, nrecv, calls, lastCall, lastExec>>
txVars == <<db, work, inTx, tx, issued, since, nstmt, tmode, tlist, tgiven,
            tran, lastCommit>>
typeVars == <<fields, types>>
connVars == <<recvVars, txVars, typeVars>>

Workers == 1..ctx.maxConcurrency

----------------------------------------------------------------------------
\* One connection used directly: statements and Results.

\* Bounds of the connection model.
MaxCalls == 3
MaxRows == 2

\* The two Receiver objects of sendTWice: rec1 and rec2.
Receivers == {1, 2}

\* The statement name of TestReceiver.
Names == {"select1"}

Stmt(k, n, g, r) == [kind |-> k, name |-> n, good |-> g, rows |-> r]

\* No statement: the value of a Receiver that was never sent.
NoStmt == Stmt("none", "", FALSE, 0)

\* What send accepts: a Command (the server accepts or rejects its text), a
\* PreparingStatement, a PreparedCommand, a Command in single-row mode
\* selecting a number of rows.
Statements ==
    {Stmt("Command", "", g, 0) : g \in BOOLEAN}
    \cup {Stmt("PreparingStatement", n, g, 0) : n \in Names, g \in BOOLEAN}
    \cup {Stmt("PreparedCommand", n, TRUE, 0) : n \in Names}
    \cup {Stmt("RowByRow", "", TRUE, k) : k \in 0..MaxRows}

\* Several statements joined into one text, as "SELECT 1; SELECT 2": the
\* server accepts all of them or rejects the text.
CombinedTexts == {Stmt("Combined", "", g, 0) : g \in BOOLEAN}

\* A Result, as isOk / isEmpty / isDone show it.
Res(o, e, d) == [ok |-> o, empty |-> e, done |-> d]
OkRows == Res(TRUE, FALSE, FALSE)
OkEmpty == Res(TRUE, TRUE, FALSE)
Failed == Res(FALSE, TRUE, FALSE)
EndMarker == Res(FALSE, TRUE, TRUE)
NoRes == Res(FALSE, FALSE, FALSE)

PoolStart ==
    /\ queue = << >>
    /\ active = {}
    /\ spawning = 0
    /\ phase = "up"
    /\ pc = [w \in WorkerIds |-> "created"]
    /\ slot = [w \in WorkerIds |-> 0]
    /\ conn = [w \in WorkerIds |-> "none"]
    /\ joinable = [w \in WorkerIds |-> FALSE]
    /\ submitted = 0
    /\ jstate = [j \in Jobs |-> "new"]
    /\ completions = [j \in Jobs |-> 0]
    /\ result = [j \in Jobs |-> "none"]
    /\ raised = [j \in Jobs |-> "none"]
    /\ execs = [j \in Jobs |-> 0]
    /\ atShutdown = [j \in Jobs |-> "none"]
    /\ liveThreads = 0
    /\ replayed = [w \in WorkerIds |-> FALSE]

\* A freshly established connection: nothing sent, nothing prepared.
ConnStart ==
    /\ owner = 0
    /\ pending = << >>
    /\ prepared = {}
    /\ okPrepared = {}
    /\ rstate = [r \in Receivers |-> "none"]
    /\ rstmt = [r \in Receivers |-> NoStmt]
    /\ runits = [r \in Receivers |-> << >>]
    /\ last = [r \in Receivers |-> NoRes]
    /\ nrecv = [r \in Receivers |-> 0]
    /\ calls = 0
    /\ lastCall = [op |-> "none", outcome |-> "none"]
    /\ lastExec = [stmt |-> NoStmt, data |-> "none"]

\* No Transaction yet, nothing applied.
TxStart ==
    /\ db = {}
    /\ work = {}
    /\ inTx = FALSE
    /\ tx = "none"
    /\ issued = << >>
    /\ since = {}
    /\ nstmt = 0
    /\ tmode = "idle"
    /\ tlist = << >>
    /\ tgiven = << >>
    /\ tran = 0
    /\ lastCommit = "none"

\* No table type visited.
TypesStart ==
    /\ fields = << >>
    /\ types = << >>

Init ==
    /\ ctx \in Contexts
    /\ PoolStart
    /\ ConnStart
    /\ TxStart
    /\ TypesStart

----------------------------------------------------------------------------
\* Deferred handle: one completion of Job j with outcome r.
Complete(j, r) ==
    /\ completions' = [completions EXCEPT ![j] = @ + 1]
    /\ result' = [result EXCEPT ![j] = r]

----------------------------------------------------------------------------
\* Channel

\* enqueue's capacity test: pending count < maxQueueSize, unbounded if unset.
HasRoomInclusive ==
    \/ ctx.maxQueueSize = << >>
    \/ /\ ctx.maxQueueSize # << >>
       /\ Len(queue) <= ctx.maxQueueSize[1]

HasRoomZeroUnbounded ==
    \/ ctx.maxQueueSize \in {<< >>, <<0>>}
    \/ /\ ctx.maxQueueSize # << >>
       /\ Len(queue) < ctx.maxQueueSize[1]

HasRoom ==
    \/ ctx.maxQueueSize = << >>
    \/ /\ ctx.maxQueueSize # << >>
       /\ Len(queue) < ctx.maxQueueSize[1]

\* spawnIfNeeded's test, evaluated with the Job already appended.
NeedSpawn == Cardinality(active) < ctx.maxConcurrency

\* The slot spawnIfNeeded starts a Worker in: the first one not active.
FreeSlot == CHOOSE w \in Workers \ active : \A v \in Workers \ active : w <= v

\* dequeue serves the queue first in, first out: the position served.
DeqIndexLast(q) == Len(q)
DeqIndex(q) == 1

\* dequeue: the Job handed out (0 for Empty) and the queue it leaves.
Front(q) == IF q = << >> THEN 0 ELSE q[DeqIndex(q)]
Rest(q) ==
    IF q = << >> THEN q
    ELSE SubSeq(q, 1, DeqIndex(q) - 1) \o SubSeq(q, DeqIndex(q) + 1, Len(q))

\* dequeue returns: a Job is available, or the idle timeout elapsed, or
\* shutdown woke the caller.
CanReturn ==
    \/ queue # << >>
    \/ ctx.idleTimeout
    \/ phase # "up"

----------------------------------------------------------------------------
\* submit on QueueFull: exceeding the limit results in an exception in the
\* thread calling the client method; the Job is not queued and no deferred
\* handle comes back.
RejectSilently(j) ==
    /\ jstate' = [jstate EXCEPT ![j] = "rejected"]
    /\ UNCHANGED <<completions, result, raised, execs>>

Reject(j) ==
    /\ jstate' = [jstate EXCEPT ![j] = "rejected"]
    /\ raised' = [raised EXCEPT ![j] = "QueueFull"]
    /\ UNCHANGED <<completions, result, execs>>

\* Client.submit(work): build the Job, Channel.enqueue, spawnIfNeeded.
Submit ==
    /\ phase = "up"
    /\ spawning = 0
    /\ submitted < MaxJobs
    /\ submitted' = submitted + 1
    /\ LET j == submitted + 1 IN
         IF HasRoom
         THEN /\ queue' = Append(queue, j)
              /\ jstate' = [jstate EXCEPT ![j] = "queued"]
              /\ UNCHANGED <<completions, result, raised, execs>>
              /\ IF NeedSpawn
                 THEN /\ active' = active \cup {FreeSlot}
                      /\ spawning' = FreeSlot
                 ELSE UNCHANGED <<active, spawning>>
         ELSE /\ Reject(j)
              /\ UNCHANGED <<queue, active, spawning>>
    /\ UNCHANGED <<connVars, ctx, workerVars, downVars>>

----------------------------------------------------------------------------
\* Worker

\* ctx_->connect(): the Context's prepared statements are prepared on the
\* connection it establishes.
ReplayedByConnect(c) == c = "ok"

\* conn.reset(): the session is established anew; its state, prepared
\* statements included, is gone.
ReplayedByReset(before) == FALSE

\* Worker::run(): join the previous thread if joinable, then start a thread
\* that captures a freshly made connection.
WorkerRunNoJoin(w) ==
    /\ spawning = w
    /\ \E c \in {"ok", "bad"} :
         /\ conn' = [conn EXCEPT ![w] = c]
         /\ replayed' = [replayed EXCEPT ![w] = ReplayedByConnect(c)]
    /\ pc' = [pc EXCEPT ![w] = "recv"]
    /\ joinable' = [joinable EXCEPT ![w] = TRUE]
    /\ liveThreads' = liveThreads + 1
    /\ spawning' = 0
    /\ UNCHANGED <<connVars, ctx, chanVars, slot, submitted, jobVars, downVars>>

WorkerRun(w) ==
    /\ spawning = w
    /\ joinable[w] => pc[w] = "done"
    /\ \E c \in {"ok", "bad"} :
         /\ conn' = [conn EXCEPT ![w] = c]
         /\ replayed' = [replayed EXCEPT ![w] = ReplayedByConnect(c)]
    /\ pc' = [pc EXCEPT ![w] = "recv"]
    /\ joinable' = [joinable EXCEPT ![w] = TRUE]
    /\ liveThreads' = liveThreads + 1
    /\ spawning' = 0
    /\ UNCHANGED <<connVars, ctx, chanVars, slot, submitted, jobVars, downVars>>

\* if (!slot_.job) break;
AfterReceiveNoBreak(job) == IF job = 0 THEN "recv" ELSE "call"

AfterReceiveAlwaysBreak(job) == IF job = 0 THEN "recycle" ELSE "recycle"

AfterReceiveReturns(job) == IF job = 0 THEN "ret" ELSE "call"

AfterReceive(job) == IF job = 0 THEN "recycle" ELSE "call"

\* chan_->receive(slot_), then the test of the slot.
WReceive(w) ==
    /\ pc[w] = "recv"
    /\ CanReturn
    /\ slot' = [slot EXCEPT ![w] = Front(queue)]
    /\ queue' = Rest(queue)
    /\ jstate' = IF queue = << >> THEN jstate
                 ELSE [jstate EXCEPT ![Front(queue)] = "slot"]
    /\ pc' = [pc EXCEPT ![w] = AfterReceive(Front(queue))]
    /\ UNCHANGED <<connVars, ctx, active, spawning, conn, joinable, liveThreads, replayed,
                   submitted, completions, result, raised, execs, downVars>>

\* slot_.job(conn), entry: the Job starts executing.
WCallNoWait(w) ==
    /\ pc[w] = "call"
    /\ jstate' = [jstate EXCEPT ![slot[w]] = "running"]
    /\ execs' = [execs EXCEPT ![slot[w]] = @ + 1]
    /\ pc' = [pc EXCEPT ![w] = "recv"]
    /\ UNCHANGED <<connVars, ctx, chanVars, spawning, slot, conn, joinable, liveThreads, replayed,
                   submitted, completions, result, raised, downVars>>

WCall(w) ==
    /\ pc[w] = "call"
    /\ jstate' = [jstate EXCEPT ![slot[w]] = "running"]
    /\ execs' = [execs EXCEPT ![slot[w]] = @ + 1]
    /\ pc' = [pc EXCEPT ![w] = "running"]
    /\ UNCHANGED <<connVars, ctx, chanVars, spawning, slot, conn, joinable, liveThreads, replayed,
                   submitted, completions, result, raised, downVars>>

\* slot_.job(conn), return: the Job has fulfilled its deferred handle with
\* a value or an ExecError; a statement may have broken the connection.
WReturnFailureEscapes(w) ==
    /\ pc[w] = "running"
    /\ \E r \in {"value", "ExecError"} :
         IF r = "value"
         THEN /\ Complete(slot[w], r)
              /\ pc' = [pc EXCEPT ![w] = "health"]
         ELSE /\ UNCHANGED <<completions, result>>
              /\ pc' = [pc EXCEPT ![w] = "recycle"]
    /\ jstate' = [jstate EXCEPT ![slot[w]] = "done"]
    /\ \E c \in {"ok", "bad"} :
         /\ conn[w] = "bad" => c = "bad"
         /\ conn' = [conn EXCEPT ![w] = c]
         /\ replayed' = [replayed EXCEPT ![w] = @ /\ c = "ok"]
    /\ UNCHANGED <<connVars, ctx, chanVars, spawning, slot, joinable, liveThreads,
                   submitted, raised, execs, downVars>>

WReturn(w) ==
    /\ pc[w] = "running"
    /\ \E r \in {"value", "ExecError"} : Complete(slot[w], r)
    /\ jstate' = [jstate EXCEPT ![slot[w]] = "done"]
    /\ \E c \in {"ok", "bad"} :
         /\ conn[w] = "bad" => c = "bad"
         /\ conn' = [conn EXCEPT ![w] = c]
         /\ replayed' = [replayed EXCEPT ![w] = @ /\ c = "ok"]
    /\ pc' = [pc EXCEPT ![w] = "health"]
    /\ UNCHANGED <<connVars, ctx, chanVars, spawning, slot, joinable, liveThreads,
                   submitted, raised, execs, downVars>>

\* if (!conn.isOk() && !conn.reset()) break;
WHealthRetry(w) ==
    /\ pc[w] = "health"
    /\ IF conn[w] = "ok"
       THEN /\ pc' = [pc EXCEPT ![w] = "recv"]
            /\ UNCHANGED <<conn, replayed, jstate>>
       ELSE \E resetOk \in BOOLEAN :
              /\ conn' = [conn EXCEPT ![w] = IF resetOk THEN "ok" ELSE "bad"]
              /\ replayed' = [replayed EXCEPT ![w] = ReplayedByReset(@)]
              /\ pc' = [pc EXCEPT ![w] = IF resetOk THEN "call" ELSE "recycle"]
              /\ jstate' = [jstate EXCEPT ![slot[w]] =
                                IF resetOk THEN "slot" ELSE @]
    /\ UNCHANGED <<connVars, ctx, chanVars, spawning, slot, joinable, liveThreads,
                   submitted, completions, result, raised, execs, downVars>>

WHealthAlwaysResets(w) ==
    /\ pc[w] = "health"
    /\ \E resetOk \in BOOLEAN :
         /\ conn' = [conn EXCEPT ![w] = IF resetOk THEN "ok" ELSE "bad"]
         /\ replayed' = [replayed EXCEPT ![w] = ReplayedByReset(@)]
         /\ pc' = [pc EXCEPT ![w] = IF resetOk THEN "recv" ELSE "recycle"]
    /\ UNCHANGED <<connVars, ctx, chanVars, spawning, slot, joinable, liveThreads,
                   submitted, jobVars, downVars>>

WHealth(w) ==
    /\ pc[w] = "health"
    /\ IF conn[w] = "ok"
       THEN /\ pc' = [pc EXCEPT ![w] = "recv"]
            /\ UNCHANGED <<conn, replayed>>
       ELSE \E resetOk \in BOOLEAN :
              /\ conn' = [conn EXCEPT ![w] = IF resetOk THEN "ok" ELSE "bad"]
              /\ replayed' = [replayed EXCEPT ![w] = ReplayedByReset(@)]
              /\ pc' = [pc EXCEPT ![w] = IF resetOk THEN "recv" ELSE "recycle"]
    /\ UNCHANGED <<connVars, ctx, chanVars, spawning, slot, joinable, liveThreads,
                   submitted, jobVars, downVars>>

\* chan_->recycle(*this)
WRecycle(w) ==
    /\ pc[w] = "recycle"
    /\ active' = active \ {w}
    /\ pc' = [pc EXCEPT ![w] = "ret"]
    /\ UNCHANGED <<connVars, ctx, queue, spawning, slot, conn, joinable, liveThreads, replayed,
                   submitted, jobVars, downVars>>

\* The thread function returns; the captured connection is destroyed.
WExitWaitsForQueue(w) ==
    /\ pc[w] = "ret"
    /\ queue = << >>
    /\ pc' = [pc EXCEPT ![w] = "done"]
    /\ conn' = [conn EXCEPT ![w] = "none"]
    /\ replayed' = [replayed EXCEPT ![w] = FALSE]
    /\ liveThreads' = liveThreads - 1
    /\ UNCHANGED <<connVars, ctx, chanVars, spawning, slot, joinable, submitted,
                   jobVars, downVars>>

WExit(w) ==
    /\ pc[w] = "ret"
    /\ pc' = [pc EXCEPT ![w] = "done"]
    /\ conn' = [conn EXCEPT ![w] = "none"]
    /\ replayed' = [replayed EXCEPT ![w] = FALSE]
    /\ liveThreads' = liveThreads - 1
    /\ UNCHANGED <<connVars, ctx, chanVars, spawning, slot, joinable, submitted,
                   jobVars, downVars>>

----------------------------------------------------------------------------
\* Pool teardown

QueuedJobs == {j \in Jobs : jstate[j] = "queued"}

\* Channel.shutdown(policy), begin: stop accepting enqueues; Drop and Abort
\* discard the pending Jobs, delivering a cancellation to their handles.
ShutdownBegin ==
    /\ phase = "up"
    /\ spawning = 0
    /\ phase' = "stopping"
    /\ atShutdown' = jstate
    /\ IF ctx.shutdownPolicy = "GRACEFUL"
       THEN UNCHANGED <<queue, jobVars>>
       ELSE /\ queue' = << >>
            /\ jstate' = [j \in Jobs |->
                            IF j \in QueuedJobs THEN "cancelled" ELSE jstate[j]]
            /\ completions' = [j \in Jobs |->
                            IF j \in QueuedJobs THEN completions[j] + 1
                            ELSE completions[j]]
            /\ result' = [j \in Jobs |->
                            IF j \in QueuedJobs THEN "Cancelled" ELSE result[j]]
    /\ UNCHANGED <<connVars, ctx, active, spawning, workerVars, submitted, raised, execs>>

\* Channel.shutdown(policy), the wait: Graceful waits until every pending
\* Job has been dequeued and every Worker has retired.
Drained ==
    ctx.shutdownPolicy = "GRACEFUL" => (queue = << >> /\ active = {})

\* What ~Worker does with a joinable thread: join under Graceful and Drop,
\* detach under Abort.
DtorJoinsGracefulOnly == ctx.shutdownPolicy = "GRACEFUL"

DtorJoinsAlways == ctx.shutdownPolicy \in {"GRACEFUL", "DROP", "ABORT"}

DtorJoins == ctx.shutdownPolicy \in {"GRACEFUL", "DROP"}

\* Worker::~Worker() of Worker w can return: a join has to wait for the
\* thread function to return, a detach does not wait.
DtorReturnsAtOnce(w) == TRUE

DtorReturns(w) == (joinable[w] /\ DtorJoins) => pc[w] = "done"

\* The pool's Workers are destroyed, one ~Worker after the other; the
\* destruction is over once every join has returned.
Teardown ==
    /\ phase = "stopping"
    /\ Drained
    /\ \A w \in Workers : DtorReturns(w)
    /\ joinable' = [w \in WorkerIds |-> FALSE]
    /\ phase' = "down"
    /\ UNCHANGED <<connVars, ctx, chanVars, spawning, atShutdown, pc, slot, conn,
                   liveThreads, replayed, submitted, jobVars>>

\* A detached thread whose Worker has been destroyed keeps using the
\* destroyed object: what it does from there on is undefined; besides
\* running on as before it may stop at any point.
WAbandoned(w) ==
    /\ phase = "down"
    /\ pc[w] \notin {"created", "done", "abandoned"}
    /\ pc' = [pc EXCEPT ![w] = "abandoned"]
    /\ UNCHANGED <<connVars, ctx, chanVars, spawning, downVars, slot, conn, joinable,
                   liveThreads, replayed, submitted, jobVars>>

TeardownDone == phase = "down"

----------------------------------------------------------------------------
Next ==
    \/ Submit
    \/ ShutdownBegin
    \/ Teardown
    \/ \E w \in WorkerIds : WAbandoned(w)
    \/ \E w \in WorkerIds : WorkerRun(w)
    \/ \E w \in WorkerIds : WReceive(w)
    \/ \E w \in WorkerIds : WCall(w)
    \/ \E w \in WorkerIds : WReturn(w)
    \/ \E w \in WorkerIds : WHealth(w)
    \/ \E w \in WorkerIds : WRecycle(w)
    \/ \E w \in WorkerIds : WExit(w)

Spec == Init /\ [][Next]_vars

\* Every started thread keeps being scheduled, a call of run() made by
\* submit goes on, and a Job's function returns; nothing obliges the
\* application to submit again or to destroy the pool.
ThreadStep(w) ==
    \/ WorkerRun(w)
    \/ WReceive(w)
    \/ WCall(w)
    \/ WReturn(w)
    \/ WHealth(w)
    \/ WRecycle(w)
    \/ WExit(w)

FairSpec == Spec /\ \A w \in WorkerIds : WF_vars(ThreadStep(w))

\* The same, for the pools configured with an idle timeout.
IdleInit == Init /\ ctx.idleTimeout

IdleFairSpec ==
    IdleInit /\ [][Next]_vars /\ \A w \in WorkerIds : WF_vars(ThreadStep(w))

----------------------------------------------------------------------------
\* Receiver: the asynchronous send / receive protocol on one connection

\* k results of one row each.
RowUnits(k) == [i \in 1..k |-> OkRows]

\* The result units the server produces for a statement on a session with
\* the names prep prepared: what receive returns before the end marker.  Of
\* a combined text only the result of its last statement comes back.
UnitsRejectedLooksOk(stmt, prep) ==
    CASE stmt.kind = "Command" ->
           IF stmt.good THEN <<OkRows>> ELSE <<OkEmpty>>
      [] stmt.kind = "PreparingStatement" ->
           IF stmt.good THEN <<OkEmpty>> ELSE <<OkEmpty>>
      [] stmt.kind = "PreparedCommand" ->
           IF stmt.name \in prep THEN <<OkRows>> ELSE <<Failed>>
      [] stmt.kind = "RowByRow" ->
           Append(RowUnits(stmt.rows), OkEmpty)
      [] stmt.kind = "Combined" ->
           IF stmt.good THEN <<OkRows>> ELSE <<Failed>>

Units(stmt, prep) ==
    CASE stmt.kind = "Command" ->
           IF stmt.good THEN <<OkRows>> ELSE <<Failed>>
      [] stmt.kind = "PreparingStatement" ->
           IF stmt.good THEN <<OkEmpty>> ELSE <<Failed>>
      [] stmt.kind = "PreparedCommand" ->
           IF stmt.name \in prep THEN <<OkRows>> ELSE <<Failed>>
      [] stmt.kind = "RowByRow" ->
           Append(RowUnits(stmt.rows), OkEmpty)
      [] stmt.kind = "Combined" ->
           IF stmt.good THEN <<OkRows>> ELSE <<Failed>>

\* The names prepared on the session once the server has run stmt.
PreparedAfterAlways(stmt, prep) ==
    IF stmt.kind = "PreparingStatement" THEN prep \cup {stmt.name} ELSE prep

PreparedAfter(stmt, prep) ==
    IF stmt.kind = "PreparingStatement" /\ stmt.good
    THEN prep \cup {stmt.name}
    ELSE prep

\* The names whose preparing statement was seen to complete with an OK
\* result, once stmt has produced the units u.
OkPreparedAfter(stmt, u, okp) ==
    IF stmt.kind = "PreparingStatement" /\ u[1].ok
    THEN okp \cup {stmt.name}
    ELSE okp

\* You can't have multiple active sends simultaneously: send and exec need
\* the handle idle.
CanSendAlways == TRUE

CanSend == owner = 0

\* The Receiver object a successful send returns: the first one not in use.
FreeReceivers == {r \in Receivers : rstate[r] \in {"none", "destroyed"}}
NewReceiver == CHOOSE r \in FreeReceivers : \A q \in FreeReceivers : r <= q

\* receive: the Result it returns, and what it leaves with the handle.
TakeTwo(p) == IF Len(p) <= 1 THEN << >> ELSE Tail(Tail(p))

NextUnit(p) == IF p = << >> THEN EndMarker ELSE Head(p)
Take(p) == IF p = << >> THEN p ELSE Tail(p)

\* The Receiver state and the owner of the handle after receive returned u.
StateAfter(u) == IF u.done THEN "Done" ELSE "HasResult"

OwnerAfterKept(r, u) == r

OwnerAfter(r, u) == IF u.done THEN 0 ELSE r


\* send(statement): refused with a protocol-misuse error while a statement
\* is in flight; otherwise the statement goes to the server and a Receiver
\* in state Busy comes back at once.
Send(stmt) ==
    /\ calls < MaxCalls
    /\ FreeReceivers # {}
    /\ calls' = calls + 1
    /\ IF CanSend
       THEN LET r == NewReceiver
                u == Units(stmt, prepared)
            IN /\ owner' = r
               /\ pending' = u
               /\ prepared' = PreparedAfter(stmt, prepared)
               /\ okPrepared' = OkPreparedAfter(stmt, u, okPrepared)
               /\ rstate' = [rstate EXCEPT ![r] = "Busy"]
               /\ rstmt' = [rstmt EXCEPT ![r] = stmt]
               /\ runits' = [runits EXCEPT ![r] = u]
               /\ last' = [last EXCEPT ![r] = NoRes]
               /\ nrecv' = [nrecv EXCEPT ![r] = 0]
               /\ lastCall' = [op |-> "send", outcome |-> "ok"]
       ELSE /\ lastCall' = [op |-> "send", outcome |-> "ProtocolMisuse"]
            /\ UNCHANGED <<owner, pending, prepared, okPrepared, rstate,
                           rstmt, runits, last, nrecv>>
    /\ UNCHANGED <<lastExec, poolVars, txVars, typeVars>>

\* receive() may be called on a Receiver until it is Done.
CanReceiveAlways(r) == rstate[r] \in {"Busy", "HasResult", "Done"}

CanReceive(r) == rstate[r] \in {"Busy", "HasResult"}

\* receive(): one unit of the pending results, or the end marker.
Receive(r) ==
    /\ CanReceive(r)
    /\ LET u == NextUnit(pending)
       IN /\ last' = [last EXCEPT ![r] = u]
          /\ rstate' = [rstate EXCEPT ![r] = StateAfter(u)]
          /\ owner' = OwnerAfter(r, u)
    /\ pending' = Take(pending)
    /\ nrecv' = [nrecv EXCEPT ![r] = @ + 1]
    /\ UNCHANGED <<prepared, okPrepared, rstmt, runits, calls, lastCall,
                   lastExec, poolVars, txVars, typeVars>>

\* receive() on a Receiver that is Done: a protocol-misuse error; nothing is
\* taken from the handle.
ReceiveAfterDone(r) ==
    /\ rstate[r] = "Done"
    /\ ~CanReceive(r)
    /\ lastCall' = [op |-> "receive", outcome |-> "ProtocolMisuse"]
    /\ UNCHANGED <<owner, pending, prepared, okPrepared, rstate, rstmt, runits,
                   last, nrecv, calls, lastExec, poolVars, txVars, typeVars>>

\* isBusy(): a poll of whether the next result is still on its way; a
\* Receiver that is Done waits for nothing.
IsBusy(r) ==
    /\ rstate[r] \in {"Busy", "HasResult", "Done"}
    /\ \E busy \in BOOLEAN :
         /\ rstate[r] = "Done" => ~busy
         /\ lastCall' = [op |-> "isBusy",
                         outcome |-> IF busy THEN "true" ELSE "false"]
    /\ UNCHANGED <<owner, pending, prepared, okPrepared, rstate, rstmt, runits,
                   last, nrecv, calls, lastExec, poolVars, txVars, typeVars>>

\* isDone(): whether the end marker has been received.
IsDone(r) ==
    /\ rstate[r] \in {"Busy", "HasResult", "Done"}
    /\ lastCall' = [op |-> "isDone",
                    outcome |-> IF rstate[r] = "Done" THEN "true" ELSE "false"]
    /\ UNCHANGED <<owner, pending, prepared, okPrepared, rstate, rstmt, runits,
                   last, nrecv, calls, lastExec, poolVars, txVars, typeVars>>

\* ~Receiver: a Receiver that is not Done takes all the results that are
\* left, the end marker included, and leaves the handle idle.
DestroyNoDrain(r) ==
    /\ rstate[r] \in {"Busy", "HasResult", "Done"}
    /\ rstate' = [rstate EXCEPT ![r] = "destroyed"]
    /\ UNCHANGED <<owner, pending, prepared, okPrepared, rstmt, runits, last,
                   nrecv, calls, lastCall, lastExec, poolVars, txVars, typeVars>>

Destroy(r) ==
    /\ rstate[r] \in {"Busy", "HasResult", "Done"}
    /\ rstate' = [rstate EXCEPT ![r] = "destroyed"]
    /\ IF rstate[r] # "Done"
       THEN /\ pending' = << >>
            /\ owner' = 0
       ELSE UNCHANGED <<owner, pending>>
    /\ UNCHANGED <<prepared, okPrepared, rstmt, runits, last, nrecv, calls,
                   lastCall, lastExec, poolVars, txVars, typeVars>>

\* exec(statement): the synchronous call; it needs the handle idle, runs the
\* statement and takes its result before it returns.
ExecStatements ==
    {stmt \in Statements : stmt.kind # "RowByRow"} \cup CombinedTexts

\* What execRaw takes: a text without arguments, one statement or several.
RawStatements ==
    {stmt \in Statements : stmt.kind = "Command"} \cup CombinedTexts

\* exec() executes only one statement at a time.
ExecAcceptsAll(stmt) == TRUE

ExecAccepts(stmt) == stmt.kind # "Combined"

\* The row data a Result of exec lets the caller read.
DataOf(u) == IF u.ok /\ ~u.empty THEN "rows" ELSE "none"

Exec(stmt) ==
    /\ calls < MaxCalls
    /\ calls' = calls + 1
    /\ IF CanSend
       THEN IF ExecAccepts(stmt)
            THEN LET u == Units(stmt, prepared)
                 IN /\ prepared' = PreparedAfter(stmt, prepared)
                    /\ okPrepared' = OkPreparedAfter(stmt, u, okPrepared)
                    /\ lastCall' =
                         [op |-> "exec",
                          outcome |-> IF u[1].ok THEN "ok" ELSE "ExecError"]
                    /\ lastExec' = [stmt |-> stmt,
                                    data |-> DataOf(u[1])]
            ELSE /\ lastCall' = [op |-> "exec", outcome |-> "ExecError"]
                 /\ lastExec' = [stmt |-> stmt, data |-> "none"]
                 /\ UNCHANGED <<prepared, okPrepared>>
       ELSE /\ lastCall' = [op |-> "exec", outcome |-> "ProtocolMisuse"]
            /\ lastExec' = [stmt |-> stmt, data |-> "none"]
            /\ UNCHANGED <<prepared, okPrepared>>
    /\ UNCHANGED <<owner, pending, rstate, rstmt, runits, last, nrecv,
                   poolVars, txVars, typeVars>>

\* execRaw(text): the text goes to the server as it is, one statement or
\* several; of the Result only the status can be used, data read is disabled.
ExecRaw(stmt) ==
    /\ calls < MaxCalls
    /\ calls' = calls + 1
    /\ IF CanSend
       THEN LET u == Units(stmt, prepared)
            IN lastCall' =
                  [op |-> "execRaw",
                   outcome |-> IF u[1].ok THEN "ok" ELSE "ExecError"]
       ELSE lastCall' = [op |-> "execRaw", outcome |-> "ProtocolMisuse"]
    /\ lastExec' = [stmt |-> stmt, data |-> "none"]
    /\ UNCHANGED <<owner, pending, prepared, okPrepared, rstate, rstmt,
                   runits, last, nrecv, poolVars, txVars, typeVars>>

\* reset() of an idle connection: the session is established anew, its
\* prepared statements are gone.
Reset ==
    /\ calls < MaxCalls
    /\ owner = 0
    /\ calls' = calls + 1
    /\ prepared' = {}
    /\ okPrepared' = {}
    /\ lastCall' = [op |-> "reset", outcome |-> "ok"]
    /\ UNCHANGED <<owner, pending, rstate, rstmt, runits, last, nrecv,
                   lastExec, poolVars, txVars, typeVars>>

\* The pool a directly used connection lives beside: the default Context.
DefaultContext ==
    [maxConcurrency |-> MaxConcurrency,
     maxQueueSize   |-> << >>,
     idleTimeout    |-> FALSE,
     shutdownPolicy |-> "GRACEFUL"]

RecvInit ==
    /\ ctx = DefaultContext
    /\ PoolStart
    /\ ConnStart
    /\ TxStart
    /\ TypesStart

RecvNext ==
    \/ \E stmt \in Statements : Send(stmt)
    \/ \E r \in Receivers : Receive(r)
    \/ \E r \in Receivers : ReceiveAfterDone(r)
    \/ \E r \in Receivers : IsBusy(r)
    \/ \E r \in Receivers : IsDone(r)
    \/ \E r \in Receivers : Destroy(r)
    \/ \E stmt \in ExecStatements : Exec(stmt)
    \/ \E stmt \in RawStatements : ExecRaw(stmt)
    \/ Reset

RecvSpec == RecvInit /\ [][RecvNext]_vars

\* Vocabulary of the Receiver properties.
Live(r) == rstate[r] \in {"Busy", "HasResult"}
SendStep == calls' = calls + 1 /\ lastCall'.op = "send"
ExecStep == calls' = calls + 1 /\ lastCall'.op = "exec"
Sent(r) == ~Live(r) /\ rstate'[r] = "Busy"

----------------------------------------------------------------------------
\* Transaction: begin / commit / rollback on drop, and transact()

\* Bound: the number of statements run on the connection.
MaxStmts == 3

\* The argument lists of transact(): per statement, whether it succeeds.
StmtLists(n) == UNION {[1..k -> BOOLEAN] : k \in 1..n}

\* A transaction handle going out of scope rolls the transaction back
\* unless it has been committed already.
NeedsRollbackNever(t) == FALSE

NeedsRollback(t) == t # "committed"

\* A statement that fails raises: transact() is left at once, the
\* Transaction goes out of scope.
UnwindsNever(ok) == FALSE

Unwinds(ok) == ~ok

\* The server runs one statement: inside an open block its effect waits
\* for the commit, outside it is applied at once (each statement is a
\* transaction of its own); a statement that fails has no effect.
RunStatement(ok) ==
    /\ nstmt' = nstmt + 1
    /\ work' = IF ok /\ inTx THEN work \cup {nstmt + 1} ELSE work
    /\ db' = IF ok /\ ~inTx THEN db \cup {nstmt + 1} ELSE db
    /\ since' = IF ok /\ inTx /\ tx = "open" THEN since \cup {nstmt + 1} ELSE since

\* conn.begin(): issue the begin-statement, hand out the Transaction.
BeginTx ==
    /\ tx \notin {"open", "committed"}
    /\ tx' = "open"
    /\ inTx' = TRUE
    /\ work' = {}
    /\ since' = {}
    /\ issued' = <<"BEGIN">>
    /\ lastCommit' = "none"

\* The Transaction has issued statement c since its begin.
Issued(c) == \E i \in 1..Len(issued) : issued[i] = c

\* No commit call has been made on the Transaction yet.
FirstCommitAlways == TRUE

FirstCommit == ~Issued("COMMIT")

\* tx.commit(), the first call: issue the commit-statement; the handle is
\* committed when the server has committed, a commit that fails ends the
\* block with nothing applied.
CommitTx(ok) ==
    /\ tx = "open"
    /\ FirstCommit
    /\ issued' = Append(issued, "COMMIT")
    /\ lastCommit' = IF ok THEN "ok" ELSE "ExecError"
    /\ db' = IF ok THEN db \cup work ELSE db
    /\ work' = {}
    /\ inTx' = FALSE
    /\ tx' = IF ok THEN "committed" ELSE "open"

\* ~Transaction
DropTx ==
    /\ tx \in {"open", "committed"}
    /\ tx' = IF tx = "committed" THEN "droppedCommitted" ELSE "droppedOpen"
    /\ IF NeedsRollback(tx)
       THEN /\ issued' = Append(issued, "ROLLBACK")
            /\ work' = {}
            /\ inTx' = FALSE
       ELSE UNCHANGED <<issued, work, inTx>>

\* transactManual: the application's own calls.
Begin ==
    /\ tmode = "idle"
    /\ BeginTx
    /\ tgiven' = << >>
    /\ tran' = 0
    /\ UNCHANGED <<db, nstmt, tmode, tlist, poolVars, recvVars, typeVars>>

TxExec(ok) ==
    /\ tmode = "idle"
    /\ nstmt < MaxStmts
    /\ RunStatement(ok)
    /\ UNCHANGED <<inTx, tx, issued, tmode, tlist, tgiven, tran, lastCommit,
                   poolVars, recvVars, typeVars>>

Commit(ok) ==
    /\ tmode = "idle"
    /\ CommitTx(ok)
    /\ UNCHANGED <<since, nstmt, tmode, tlist, tgiven, tran, poolVars,
                   recvVars, typeVars>>

\* tx.commit(), a call after the first: an error; nothing is issued.
CommitAgain ==
    /\ tmode = "idle"
    /\ tx \in {"open", "committed"}
    /\ ~FirstCommit
    /\ lastCommit' = "ProtocolMisuse"
    /\ UNCHANGED <<db, work, inTx, tx, issued, since, nstmt, tmode, tlist,
                   tgiven, tran, poolVars, recvVars, typeVars>>

Drop ==
    /\ tmode = "idle"
    /\ DropTx
    /\ UNCHANGED <<db, since, nstmt, tmode, tlist, tgiven, tran, lastCommit,
                   poolVars, recvVars, typeVars>>

\* conn.transact(statements...): open a Transaction,
TransactBegin(list) ==
    /\ tmode = "idle"
    /\ Len(list) <= MaxStmts - nstmt
    /\ BeginTx
    /\ tmode' = "running"
    /\ tlist' = list
    /\ tgiven' = list
    /\ tran' = 0
    /\ UNCHANGED <<db, nstmt, poolVars, recvVars, typeVars>>

\* run each statement,
TransactExec ==
    /\ tmode = "running"
    /\ tlist # << >>
    /\ RunStatement(Head(tlist))
    /\ tran' = tran + 1
    /\ IF Unwinds(Head(tlist))
       THEN /\ tlist' = << >>
            /\ tmode' = "leaving"
       ELSE /\ tlist' = Tail(tlist)
            /\ tmode' = "running"
    /\ UNCHANGED <<inTx, tx, issued, tgiven, lastCommit, poolVars, recvVars,
                   typeVars>>

\* commit when all of them have run,
TransactCommit(ok) ==
    /\ tmode = "running"
    /\ tlist = << >>
    /\ CommitTx(ok)
    /\ tmode' = "leaving"
    /\ UNCHANGED <<since, nstmt, tlist, tgiven, tran, poolVars, recvVars, typeVars>>

\* and leave: the Transaction goes out of scope.
TransactReturn ==
    /\ tmode = "leaving"
    /\ DropTx
    /\ tmode' = "idle"
    /\ UNCHANGED <<db, since, nstmt, tlist, tgiven, tran, lastCommit, poolVars,
                   recvVars, typeVars>>

TxInit ==
    /\ ctx = DefaultContext
    /\ PoolStart
    /\ ConnStart
    /\ TxStart
    /\ TypesStart

TxNext ==
    \/ Begin
    \/ \E ok \in BOOLEAN : TxExec(ok)
    \/ \E ok \in BOOLEAN : Commit(ok)
    \/ CommitAgain
    \/ Drop
    \/ \E list \in StmtLists(MaxStmts) : TransactBegin(list)
    \/ TransactExec
    \/ \E ok \in BOOLEAN : TransactCommit(ok)
    \/ TransactReturn

TxSpec == TxInit /\ [][TxNext]_vars

\* Vocabulary of the Transaction properties.
AllGood(l) == \A i \in 1..Len(l) : l[i]
FirstBad(l) == CHOOSE i \in 1..Len(l) : ~l[i] /\ \A k \in 1..(i - 1) : l[k]
TransactDone == tmode = "idle" /\ tgiven # << >>

----------------------------------------------------------------------------
\* TypesCollector: the argument types of the statement prepared for a table

\* Bound: the number of fields of a table type, the sample tables apart.
MaxFields == 2

\* A field type: its category, sizeof for an arithmetic type, and whether it
\* is wrapped in std::optional.
FieldType(c, sz, o) == [cat |-> c, size |-> sz, opt |-> o]

\* The field types of PreparedCommandTestTable and
\* PreparedCommandEnumTestTable.
TestTable ==
    <<FieldType("string", 0, FALSE),
      FieldType("signed", 4, FALSE),
      FieldType("floating", 8, FALSE),
      FieldType("signed", 4, TRUE),
      FieldType("stringVector", 0, FALSE)>>

EnumTestTable ==
    <<FieldType("enum", 0, FALSE),
      FieldType("enumVector", 0, FALSE)>>

\* The types oid_of is overloaded for.
BareTypes ==
    {FieldType("bool", 1, FALSE)}
    \cup {FieldType("floating", sz, FALSE) : sz \in {4, 8, 16}}
    \cup {FieldType(c, sz, FALSE) :
             c \in {"signed", "unsigned"}, sz \in {1, 2, 4, 8}}
    \cup {FieldType(c, 0, FALSE) :
             c \in {"string", "stringVector", "timePoint", "enum",
                    "enumVector"}}

FieldTypes == BareTypes \cup {[t EXCEPT !.opt = TRUE] : t \in BareTypes}

RECURSIVE TablesOf(_)
TablesOf(n) ==
    IF n = 0 THEN {<< >>}
    ELSE LET shorter == TablesOf(n - 1)
         IN shorter \cup {Append(tb, t) : tb \in shorter, t \in FieldTypes}

Tables == TablesOf(MaxFields) \cup {TestTable, EnumTestTable}

\* oid_of(T*) for an arithmetic T, with a 4-byte integer taken for wide.
OidOfArithmeticWide(t) ==
    CASE t.cat = "bool" -> "BOOLOID"
      [] t.cat = "floating" ->
           IF t.size <= 4 THEN "FLOAT4OID" ELSE "FLOAT8OID"
      [] t.cat \in {"signed", "unsigned"} ->
           IF t.size <= 2 THEN "INT2OID"
           ELSE IF t.size < 4 THEN "INT4OID" ELSE "INT8OID"

\* oid_of(T*) for an arithmetic T.
OidOfArithmetic(t) ==
    CASE t.cat = "bool" -> "BOOLOID"
      [] t.cat = "floating" ->
           IF t.size <= 4 THEN "FLOAT4OID" ELSE "FLOAT8OID"
      [] t.cat = "signed" ->
           IF t.size <= 2 THEN "INT2OID"
           ELSE IF t.size <= 4 THEN "INT4OID" ELSE "INT8OID"
      [] t.cat = "unsigned" ->
           IF t.size <= 2 THEN "INT2OID"
           ELSE IF t.size <= 4 THEN "INT4OID" ELSE "INT8OID"

\* The T of std::optional<T>.
Inner(t) == [t EXCEPT !.opt = FALSE]

\* oid_of: the overload chosen for the field type.
RECURSIVE OidOf(_)
OidOf(t) ==
    IF t.opt THEN OidOf(Inner(t))
    ELSE CASE t.cat \in {"bool", "floating", "signed", "unsigned"} ->
                OidOfArithmetic(t)
           [] t.cat = "string" -> "TEXTOID"
           [] t.cat = "stringVector" -> "TEXTARRAYOID"
           [] t.cat = "timePoint" -> "TIMESTAMPOID"
           [] t.cat = "enum" -> "UNKNOWNOID"
           [] t.cat = "enumVector" -> "UNKNOWNOID"

\* TypesCollector::accept<T>: the table type's visitor calls it for the
\* next declared field.
Accept ==
    /\ Len(types) < Len(fields)
    /\ types' = Append(types, OidOf(fields[Len(types) + 1]))
    /\ UNCHANGED <<fields, poolVars, recvVars, txVars>>

TypesInit ==
    /\ ctx = DefaultContext
    /\ PoolStart
    /\ ConnStart
    /\ TxStart
    /\ fields \in Tables
    /\ types = << >>

TypesNext == Accept

TypesSpec == TypesInit /\ [][TypesNext]_vars

\* The table type has been visited to its last field.
Collected == Len(types) = Len(fields)

----------------------------------------------------------------------------
\* Vocabulary of the properties.

Accepted(j) == jstate[j] \in {"queued", "slot", "running", "done", "cancelled"}
Dequeued(j) == jstate[j] \in {"slot", "running", "done"}
Started(j) == jstate[j] \in {"running", "done"}
RealOutcome(j) == result[j] \in {"value", "ExecError"}

\* No thread is left and no connection is open.
AllRetired ==
    /\ active = {}
    /\ liveThreads = 0
    /\ \A w \in WorkerIds : pc[w] \in {"created", "done"} /\ conn[w] = "none"

----------------------------------------------------------------------------
\* C1: with maxConcurrency >= 1 and no shutdown, every Job that submit
\* queued has its deferred handle completed eventually, with a value or an
\* ExecError, and no handle is ever completed twice.
C1_EveryJobCompletesOnce ==
    /\ [](\A j \in Jobs : completions[j] <= 1)
    /\ \A j \in Jobs :
         (Accepted(j) /\ ctx.maxConcurrency >= 1)
           ~> ((completions[j] = 1 /\ RealOutcome(j)) \/ phase # "up")

\* C2: the number of live Worker threads, each holding a connection, never
\* exceeds maxConcurrency, and neither does the Channel's active set.
C2_RunningBounded ==
    /\ liveThreads <= ctx.maxConcurrency
    /\ Cardinality(active) <= ctx.maxConcurrency
    /\ Cardinality({w \in WorkerIds : pc[w] \notin {"created", "done"}})
         <= ctx.maxConcurrency

C2_Witness ==
    /\ ctx.maxConcurrency = 2
    /\ liveThreads = 2
    /\ \A w \in Workers : pc[w] = "running"

\* C3: Jobs are dequeued in the order they were enqueued: a Job is never
\* dequeued while a Job enqueued before it has not been dequeued.
C3_Fifo ==
    \A i, j \in Jobs :
        (i < j /\ Accepted(i) /\ Dequeued(j)) => Dequeued(i)

C3_Witness ==
    /\ ctx.maxConcurrency = 2
    /\ jstate[1] = "running"
    /\ jstate[2] = "slot"

\* C4: with maxConcurrency = 1, of two queued Jobs the later one is dequeued
\* only after the earlier one started and starts only after the earlier
\* one completed: executions never overlap.
C4_Serialized ==
    ctx.maxConcurrency = 1 =>
        \A i, j \in Jobs :
            (i < j /\ Accepted(i) /\ Accepted(j)) =>
                /\ Dequeued(j) => Started(i)
                /\ Started(j) => (jstate[i] = "done" /\ completions[i] = 1)

C4_Witness ==
    /\ ctx.maxConcurrency = 1
    /\ jstate[1] = "done"
    /\ jstate[2] = "running"

\* C5: a submit step appends the Job when the pending count is below
\* maxQueueSize (always when it is unset) and otherwise leaves the queue as
\* it is and fails with QueueFull; the pending count never exceeds
\* maxQueueSize.
C5_EnqueueBounded ==
    /\ [](ctx.maxQueueSize # << >> => Len(queue) <= ctx.maxQueueSize[1])
    /\ [][submitted' = submitted + 1 =>
            IF ctx.maxQueueSize = << >> \/ Len(queue) < ctx.maxQueueSize[1]
            THEN queue' = Append(queue, submitted')
            ELSE /\ queue' = queue
                 /\ jstate'[submitted'] = "rejected"
                 /\ raised'[submitted'] = "QueueFull"]_vars

C5_Witness ==
    /\ ctx.maxQueueSize = <<1>>
    /\ Len(queue) = 1
    /\ \E j \in Jobs : jstate[j] = "rejected" /\ raised[j] = "QueueFull"

\* C6, as stated: a Job refused with QueueFull has its deferred handle
\* completed with the capacity error as soon as submit has returned.
C6_QueueFullCompletesHandle ==
    \A j \in Jobs : jstate[j] = "rejected" =>
        (completions[j] = 1 /\ result[j] = "QueueFull")

\* C6, amended: submit never blocks; a Job refused with QueueFull makes
\* submit raise the capacity error in the calling thread, no deferred
\* handle is completed for it, and it is never queued or executed.
C6_QueueFullRaised ==
    /\ [](\A j \in Jobs : jstate[j] = "rejected" =>
              (raised[j] = "QueueFull" /\ completions[j] = 0 /\ result[j] = "none"))
    /\ [][\A j \in Jobs : jstate[j] = "rejected" => jstate'[j] = "rejected"]_vars

C6_Witness ==
    \E i, j \in Jobs :
        /\ jstate[i] = "done"
        /\ jstate[j] = "rejected"
        /\ raised[j] = "QueueFull"

\* C7: with maxQueueSize = 0 every submit is refused with QueueFull at
\* once: no Job is ever queued or left waiting.
C7_ZeroQueueRejects ==
    ctx.maxQueueSize = <<0>> =>
        /\ queue = << >>
        /\ \A j \in 1..submitted :
             jstate[j] = "rejected" /\ raised[j] = "QueueFull"

C7_Witness ==
    /\ ctx.maxQueueSize = <<0>>
    /\ ctx.maxConcurrency = 0
    /\ submitted = 2
    /\ raised[2] = "QueueFull"

\* C8: with idleTimeout set, and submits being finitely many, from any
\* state of a pool that is not shut down a state is reached again in which
\* every Worker has left its loop and reported itself retired and every
\* connection is destroyed: no Worker stays connected.
C8_IdleWorkersRetire == []<>(AllRetired \/ phase # "up")

C8_Witness ==
    /\ ctx.idleTimeout
    /\ phase = "up"
    /\ \E j \in Jobs : jstate[j] = "done"
    /\ AllRetired

\* C9: under Graceful, once shutdown has begun no submit is accepted, and
\* when teardown is complete every Job that was pending when shutdown began
\* has been executed and its handle holds its own outcome.
C9_GracefulDrains ==
    /\ [][phase # "up" => (submitted' = submitted /\ Len(queue') <= Len(queue))]_vars
    /\ []((TeardownDone /\ ctx.shutdownPolicy = "GRACEFUL") =>
            \A j \in Jobs : atShutdown[j] = "queued" =>
                (jstate[j] = "done" /\ completions[j] = 1 /\ RealOutcome(j)))

C9_Witness ==
    /\ TeardownDone
    /\ ctx.shutdownPolicy = "GRACEFUL"
    /\ \E j \in Jobs : atShutdown[j] = "queued" /\ jstate[j] = "done"

\* C10: under Drop, every Job pending at shutdown is cancelled without
\* being executed, and when teardown is complete every Job that was already
\* dequeued has run to completion with its real outcome: the handle of
\* every Job that was queued has been completed exactly once.
C10_DropCancelsPending ==
    ctx.shutdownPolicy = "DROP" =>
        /\ \A j \in Jobs : atShutdown[j] = "queued" =>
             (jstate[j] = "cancelled" /\ result[j] = "Cancelled" /\ completions[j] = 1)
        /\ TeardownDone =>
             \A j \in Jobs :
                 /\ Accepted(j) => completions[j] = 1
                 /\ atShutdown[j] \in {"slot", "running"} =>
                      (jstate[j] = "done" /\ RealOutcome(j))

C10_Witness ==
    /\ TeardownDone
    /\ ctx.shutdownPolicy = "DROP"
    /\ \E i, j \in Jobs :
         /\ atShutdown[i] = "running" /\ jstate[i] = "done"
         /\ atShutdown[j] = "queued" /\ jstate[j] = "cancelled"

\* C11: under Abort, every Job that was pending when shutdown began is
\* cancelled, its handle completed once with the cancellation error, and it
\* is never executed; and the destruction of the Workers can complete at
\* once whatever the threads are doing: a thread with a Job in flight is
\* detached, not waited upon.
C11_AbortDoesNotWait ==
    ctx.shutdownPolicy = "ABORT" =>
        /\ \A j \in Jobs : atShutdown[j] = "queued" =>
             /\ jstate[j] = "cancelled"
             /\ result[j] = "Cancelled"
             /\ completions[j] = 1
             /\ execs[j] = 0
        /\ phase = "stopping" => ENABLED Teardown
        /\ TeardownDone => \A w \in WorkerIds : ~joinable[w]

C11_Witness ==
    /\ TeardownDone
    /\ ctx.shutdownPolicy = "ABORT"
    /\ \E w \in WorkerIds : pc[w] = "running"
    /\ \E j \in Jobs : atShutdown[j] = "queued" /\ jstate[j] = "cancelled"

\* C12: the function of a Job is called at most once over all Workers, and
\* exactly once for a Job that started; a Job that was dequeued is never
\* back in the queue and is held by one Worker only, whatever happened to
\* the connection of the Worker that executed it.
C12_ExecutedOnce ==
    \A j \in Jobs :
        /\ execs[j] <= 1
        /\ Started(j) <=> execs[j] = 1
        /\ Dequeued(j) =>
             /\ \A i \in 1..Len(queue) : queue[i] # j
             /\ Cardinality({w \in WorkerIds : slot[w] = j}) <= 1
             /\ jstate[j] # "done" =>
                  Cardinality({w \in WorkerIds : slot[w] = j}) = 1

C12_Witness ==
    /\ jstate[1] = "done"
    /\ execs[1] = 1
    /\ jstate[2] = "running"
    /\ \E w \in WorkerIds : slot[w] = 1 /\ pc[w] = "recycle" /\ conn[w] = "bad"

\* C13: at most one Receiver of a handle is not Done at any time; a send
\* made while such a Receiver exists ends with the protocol-misuse error,
\* creates no Receiver and leaves the state of the first Receiver, the
\* results pending for it and the session as they were.
C13_SecondSendRefused ==
    /\ [](Cardinality({r \in Receivers : Live(r)}) <= 1)
    /\ [][(SendStep /\ \E r \in Receivers : Live(r)) =>
            /\ lastCall'.outcome = "ProtocolMisuse"
            /\ UNCHANGED <<owner, pending, rstate, rstmt, runits, last, nrecv,
                           prepared, okPrepared>>]_vars

C13_Witness ==
    /\ lastCall = [op |-> "send", outcome |-> "ProtocolMisuse"]
    /\ rstate[1] = "HasResult"
    /\ rstate[2] = "none"
    /\ Len(pending) >= 1

\* C14: a send made when a Receiver of the handle is Done and none is
\* Busy or HasResult succeeds, whatever the number of rounds made before:
\* a new Receiver is Busy, owns the handle and has all the result units of
\* its statement pending; a Done Receiver never holds the handle.
C14_SendAfterDone ==
    /\ [](\A r \in Receivers : rstate[r] = "Done" => owner # r)
    /\ [][(SendStep /\ (\E r \in Receivers : rstate[r] = "Done")
                    /\ (\A r \in Receivers : ~Live(r))) =>
            /\ lastCall'.outcome = "ok"
            /\ \E r \in Receivers :
                 /\ Sent(r)
                 /\ owner' = r
                 /\ nrecv'[r] = 0
                 /\ pending' = runits'[r]
                 /\ Len(pending') >= 1]_vars

C14_Witness ==
    /\ calls = MaxCalls
    /\ lastCall = [op |-> "send", outcome |-> "ok"]
    /\ rstate[1] = "Done"
    /\ rstate[2] = "Done"
    /\ nrecv[1] >= 2
    /\ nrecv[2] >= 2

\* C15: destroying a Receiver that is Busy or HasResult, whatever the
\* number of receive calls made on it, leaves nothing pending and the
\* handle idle; and a send or an exec made when no Receiver is Busy or
\* HasResult never ends with the protocol-misuse error.
C15_DestructorDrains ==
    /\ [][\A r \in Receivers : (Live(r) /\ rstate'[r] = "destroyed") =>
            (owner' = 0 /\ pending' = << >>)]_vars
    /\ [][((SendStep \/ ExecStep) /\ \A r \in Receivers : ~Live(r)) =>
            lastCall'.outcome # "ProtocolMisuse"]_vars

C15_Witness ==
    /\ lastCall = [op |-> "exec", outcome |-> "ok"]
    /\ \E r \in Receivers :
         /\ rstate[r] = "destroyed"
         /\ nrecv[r] = 0
         /\ Len(runits[r]) = MaxRows + 1

\* C16: a Receiver whose statement produced n result units returns them one
\* per receive call, in order and none of them Done, and returns the end
\* marker (Done, not OK, empty) at call n + 1, which makes it Done; a
\* Command the server accepts produces one OK result with rows.
C16_OneUnitPerReceive ==
    \A r \in Receivers : rstate[r] # "none" =>
        LET n == Len(runits[r]) IN
        /\ nrecv[r] <= n + 1
        /\ Live(r) => (owner = r /\ pending = SubSeq(runits[r], nrecv[r] + 1, n))
        /\ nrecv[r] \in 1..n =>
             (last[r] = runits[r][nrecv[r]] /\ ~last[r].done)
        /\ nrecv[r] = n + 1 => last[r] = EndMarker
        /\ rstate[r] = "Done" => nrecv[r] = n + 1
        /\ nrecv[r] = n + 1 => rstate[r] \in {"Done", "destroyed"}
        /\ rstmt[r] = Stmt("Command", "", TRUE, 0) => runits[r] = <<OkRows>>

C16_Witness ==
    \E r \in Receivers :
        /\ rstmt[r] = Stmt("RowByRow", "", TRUE, MaxRows)
        /\ nrecv[r] = MaxRows + 2
        /\ rstate[r] = "Done"
        /\ last[r] = EndMarker

\* C17: the send of a statement the server rejects succeeds and returns a
\* Busy Receiver; its first receive returns a Result that is not OK, empty
\* and not Done, its second the end marker, after which the Receiver does
\* not hold the handle.
C17_RejectedStatement ==
    /\ [][\A r \in Receivers : (Sent(r) /\ ~rstmt'[r].good) =>
            /\ lastCall' = [op |-> "send", outcome |-> "ok"]
            /\ owner' = r]_vars
    /\ [](\A r \in Receivers : (rstate[r] # "none" /\ ~rstmt[r].good) =>
            /\ nrecv[r] <= 2
            /\ nrecv[r] = 0 => rstate[r] \in {"Busy", "destroyed"}
            /\ nrecv[r] = 1 =>
                 (last[r] = Failed /\ rstate[r] \in {"HasResult", "destroyed"})
            /\ nrecv[r] = 2 =>
                 /\ last[r] = EndMarker
                 /\ rstate[r] \in {"Done", "destroyed"}
                 /\ owner # r)

C17_Witness ==
    /\ rstmt[1] = Stmt("Command", "", FALSE, 0)
    /\ rstate[1] = "Done"
    /\ nrecv[1] = 2
    /\ rstmt[2] = Stmt("PreparingStatement", "select1", FALSE, 0)
    /\ rstate[2] = "HasResult"
    /\ last[2] = Failed

\* C18: a PreparedCommand named N that is sent produces one OK result with
\* rows if a preparing statement for N gave an OK result on the session
\* since it was established, and one failed result otherwise; receive
\* returns that result first and the end marker next.
C18_PreparedIffPrepared ==
    /\ [][\A r \in Receivers :
            (Sent(r) /\ rstmt'[r].kind = "PreparedCommand") =>
                /\ runits'[r] = <<OkRows>> <=> rstmt'[r].name \in okPrepared
                /\ runits'[r] = <<Failed>> <=> rstmt'[r].name \notin okPrepared]_vars
    /\ [](\A r \in Receivers :
            (rstate[r] # "none" /\ rstmt[r].kind = "PreparedCommand") =>
                /\ nrecv[r] = 1 => last[r] = runits[r][1]
                /\ nrecv[r] = 2 => last[r] = EndMarker)

C18_Witness ==
    /\ rstmt[1] = Stmt("PreparingStatement", "select1", TRUE, 0)
    /\ rstate[1] = "Done"
    /\ rstmt[2] = Stmt("PreparedCommand", "select1", TRUE, 0)
    /\ nrecv[2] = 1
    /\ last[2] = OkRows

\* C19: a Transaction dropped without a commit that succeeded has issued a
\* rollback as its last statement and none of the statements that ran in
\* it is applied; a Transaction whose commit succeeded issues no rollback,
\* also when dropped, and all the statements that ran in it stay applied.
C19_RollbackUnlessCommitted ==
    /\ tx = "droppedOpen" =>
         /\ issued[Len(issued)] = "ROLLBACK"
         /\ db \cap since = {}
         /\ work = {}
         /\ ~inTx
    /\ tx \in {"committed", "droppedCommitted"} =>
         /\ ~Issued("ROLLBACK")
         /\ since \subseteq db

C19_Witness ==
    /\ tx = "droppedOpen"
    /\ tgiven = << >>
    /\ since = {2, 3}
    /\ db = {1}

\* C20: when transact() has returned, a commit was issued only if every
\* statement of its list succeeded; if one failed, the statements after
\* it were never run, no commit was issued, a rollback was, and none of the
\* list's statements is applied; if the commit succeeded all of them are.
C20_TransactAllOrNothing ==
    TransactDone =>
        /\ Issued("COMMIT") <=> AllGood(tgiven)
        /\ AllGood(tgiven) => tran = Len(tgiven)
        /\ ~AllGood(tgiven) =>
             /\ tran = FirstBad(tgiven)
             /\ Issued("ROLLBACK")
             /\ tx = "droppedOpen"
        /\ tx = "droppedOpen" => db \cap since = {}
        /\ tx = "droppedCommitted" =>
             (since \subseteq db /\ Cardinality(since) = Len(tgiven))
        /\ tx \in {"droppedOpen", "droppedCommitted"}

C20_Witness ==
    /\ TransactDone
    /\ tgiven = <<TRUE, FALSE, TRUE>>
    /\ tran = 2
    /\ tx = "droppedOpen"
    /\ db = {}

\* C21 as stated: exec of the combined text "SELECT 1; SELECT 2" succeeds
\* and hands back the result of the final statement.
C21_CombinedExecSucceeds ==
    (lastCall.op = "exec" /\ lastExec.stmt = Stmt("Combined", "", TRUE, 0)
       /\ lastCall.outcome # "ProtocolMisuse") =>
        (lastCall.outcome = "ok" /\ lastExec.data = "rows")

\* C21: exec of a combined text on an idle connection ends in a runtime
\* error and no data; execRaw of a combined text the server accepts
\* succeeds, and no row data can be read from what it returns, of the first
\* statement or of the last.
C21_CombinedNeedsExecRaw ==
    /\ (lastCall.op = "exec" /\ lastExec.stmt.kind = "Combined"
          /\ lastCall.outcome # "ProtocolMisuse") =>
         (lastCall.outcome = "ExecError" /\ lastExec.data = "none")
    /\ (lastCall.op = "execRaw" /\ lastExec.stmt.kind = "Combined"
          /\ lastCall.outcome # "ProtocolMisuse") =>
         /\ lastCall.outcome = (IF lastExec.stmt.good THEN "ok"
                                ELSE "ExecError")
         /\ lastExec.data = "none"

C21_Witness ==
    /\ lastCall = [op |-> "execRaw", outcome |-> "ok"]
    /\ lastExec = [stmt |-> Stmt("Combined", "", TRUE, 0), data |-> "none"]
    /\ calls = 2

\* C22: the collected list has one OID per visited field, in declaration
\* order, and once the table type is visited exactly one per declared
\* field: std::string gives TEXTOID, a signed 4-byte integer INT4OID, an
\* 8-byte floating type FLOAT8OID, std::vector<std::string> TEXTARRAYOID,
\* an enum type and a vector of an enum type UNKNOWNOID, and
\* std::optional<T> what T gives.
C22_OidPerField ==
    /\ Len(types) <= Len(fields)
    /\ \A i \in 1..Len(types) :
         LET f == fields[i]
             t == Inner(f)
         IN /\ t.cat = "string" => types[i] = "TEXTOID"
            /\ (t.cat = "signed" /\ t.size = 4) => types[i] = "INT4OID"
            /\ (t.cat = "floating" /\ t.size = 8) => types[i] = "FLOAT8OID"
            /\ t.cat = "stringVector" => types[i] = "TEXTARRAYOID"
            /\ t.cat \in {"enum", "enumVector"} => types[i] = "UNKNOWNOID"
            /\ f.opt => types[i] = OidOf(t)

C22_Witness ==
    /\ fields = TestTable
    /\ Collected
    /\ types = <<"TEXTOID", "INT4OID", "FLOAT8OID", "INT4OID",
                 "TEXTARRAYOID">>

C24_FailedConnectRetires ==
    \A w \in WorkerIds :
       conn[w] = "bad" => pc[w] \notin {"recv", "call", "running"}

\* C25: the return of a Job's function takes the thread to the health check
\* and nowhere else.  There a healthy connection is left as it is, without
\* a reset, and the thread goes to the next dequeue; an unhealthy one is
\* reset, and the thread goes to the next dequeue if the reset succeeded and
\* out of the loop to its retirement if it failed.  Neither the health
\* check nor the retirement takes a Job from the queue.
C25_HealthCheck ==
    [][\A w \in WorkerIds :
         (pc'[w] # pc[w] /\ pc'[w] # "abandoned") =>
            /\ pc[w] = "running" => pc'[w] = "health"
            /\ (pc[w] = "health" /\ conn[w] = "ok") =>
                 /\ pc'[w] = "recv"
                 /\ conn'[w] = "ok"
                 /\ replayed'[w] = replayed[w]
            /\ (pc[w] = "health" /\ conn[w] # "ok") =>
                 \/ pc'[w] = "recv" /\ conn'[w] = "ok"
                 \/ pc'[w] = "recycle" /\ conn'[w] = "bad"
            /\ pc[w] \in {"health", "recycle"} =>
                 /\ queue' = queue
                 /\ slot' = slot
            /\ pc[w] = "recycle" => pc'[w] = "ret"]_vars

\* The first Job broke the connection, the reset succeeded, and the thread
\* has dequeued the second Job.
C25_Witness ==
    \E w \in Workers :
       /\ pc[w] = "call"
       /\ slot[w] = 2
       /\ conn[w] = "ok"
       /\ ~replayed[w]
       /\ jstate[1] = "done"
       /\ liveThreads = 1

\* C26: while the pool is up and can have Workers, a pending Job always has
\* a Worker to be dequeued by: one in the active set, or one being started.
C26_PendingNeverStranded ==
    (phase = "up" /\ queue # << >> /\ ctx.maxConcurrency >= 1) =>
        (active # {} \/ spawning # 0)

\* C27: every Worker has at most one live thread, so the live threads are
\* as many as the Workers inside their thread function.  run() is called
\* for a Worker only after its previous thread, if any, has reported itself
\* retired; the join run() makes waits for a thread that has only its
\* return left, which nothing blocks, and the new thread is started only
\* once the previous one has returned.
C27_OneThreadPerWorker ==
    /\ liveThreads =
         Cardinality({w \in WorkerIds : pc[w] \notin {"created", "done"}})
    /\ \A w \in WorkerIds :
         spawning = w =>
            /\ pc[w] \in {"created", "ret", "done"}
            /\ pc[w] = "created" <=> ~joinable[w]
            /\ pc[w] = "ret" => (ENABLED WExit(w) /\ ~ENABLED WorkerRun(w))
            /\ pc[w] # "ret" => ENABLED WorkerRun(w)

\* run() is waiting in the join of the Worker's previous thread.
C27_Witness ==
    /\ spawning = 1
    /\ joinable[1]
    /\ pc[1] = "ret"
    /\ liveThreads = 1
    /\ queue # << >>

\* C28: a thread inside its loop is in the active set, and one that has
\* reported itself retired is not, unless run() has been called for its
\* Worker again.  A thread leaves its loop on an empty dequeue or on a
\* failed reset, and then reports itself retired; a Worker leaves the active
\* set by that step of its own thread only, taken while it holds no Job
\* that is not completed; the thread function returns right after that
\* step and after no other.
C28_RetiresOnceAtExit ==
    /\ [](\A w \in WorkerIds :
            /\ pc[w] \in {"recv", "call", "running", "health", "recycle"} =>
                 w \in active
            /\ (pc[w] \in {"created", "ret", "done"} /\ w \in active) =>
                 spawning = w)
    /\ [][\A w \in WorkerIds :
            /\ (pc'[w] = "recycle" /\ pc[w] # "recycle") =>
                 \/ pc[w] = "recv" /\ slot'[w] = 0
                 \/ pc[w] = "health" /\ conn'[w] = "bad"
            /\ (w \in active /\ w \notin active') =>
                 /\ pc[w] = "recycle" /\ pc'[w] = "ret"
                 /\ slot[w] # 0 => jstate[slot[w]] = "done"
            /\ (pc'[w] = "ret" /\ pc[w] # "ret") =>
                 (pc[w] = "recycle" /\ w \in active /\ w \notin active')
            /\ (pc'[w] = "done" /\ pc[w] # "done") => pc[w] = "ret"
            /\ (pc[w] = "recycle" /\ pc'[w] \notin {"recycle", "abandoned"}) =>
                 pc'[w] = "ret"]_vars

\* A thread has reported itself retired after a failed reset, its Job
\* completed, and has only its return left.
C28_Witness ==
    \E w \in Workers :
       /\ pc[w] = "ret"
       /\ w \notin active
       /\ conn[w] = "bad"
       /\ slot[w] = 1
       /\ jstate[1] = "done"

\* C29: under Graceful and Drop the destruction of the Workers waits for
\* every joinable thread that has not returned, and once it is over every
\* thread that was started has returned, so none is left to touch a
\* destroyed Worker; under Abort it waits for no thread.  After it no
\* Worker has a joinable thread.
C29_JoinOrDetach ==
    /\ (phase = "stopping" /\ ctx.shutdownPolicy \in {"GRACEFUL", "DROP"}) =>
         ((\E w \in Workers : joinable[w] /\ pc[w] # "done")
            => ~ENABLED Teardown)
    /\ (phase = "stopping" /\ ctx.shutdownPolicy = "ABORT") =>
         (\A w \in Workers : DtorReturns(w)) /\ ENABLED Teardown
    /\ TeardownDone =>
         /\ \A w \in WorkerIds : ~joinable[w]
         /\ ctx.shutdownPolicy \in {"GRACEFUL", "DROP"} =>
              /\ liveThreads = 0
              /\ \A w \in WorkerIds : pc[w] \in {"created", "done"}

\* Under Drop the Workers were destroyed after a Job that was executing at
\* shutdown had completed and its thread had returned.
C29_Witness ==
    /\ TeardownDone
    /\ ctx.shutdownPolicy = "DROP"
    /\ liveThreads = 0
    /\ \E w \in Workers :
         /\ pc[w] = "done"
         /\ slot[w] # 0
         /\ atShutdown[slot[w]] = "running"

\* C30: a Job executing on a working connection of a pool Worker finds
\* every prepared statement of the Context's list prepared on it.
C30_PreparedOnEveryConnection ==
    \A w \in WorkerIds :
       (pc[w] = "running" /\ conn[w] = "ok") => replayed[w]

\* C31: a Transaction issues at most one commit-statement; a commit call
\* after the first ends in a protocol-misuse error and changes nothing, on
\* the Transaction or on the server, whether the first commit succeeded or
\* failed; and a Transaction that is committed has issued no rollback,
\* before or after it is dropped.
C31_CommitAtMostOnce ==
    /\ [](Cardinality({i \in 1..Len(issued) : issued[i] = "COMMIT"}) <= 1)
    /\ [](tx \in {"committed", "droppedCommitted"} =>
            (Issued("COMMIT") /\ ~Issued("ROLLBACK")))
    /\ [][(Issued("COMMIT") /\ tx \in {"open", "committed"}
             /\ lastCommit' # lastCommit) =>
            /\ lastCommit' = "ProtocolMisuse"
            /\ issued' = issued
            /\ tx' = tx
            /\ db' = db
            /\ work' = work
            /\ inTx' = inTx]_vars
    /\ [][lastCommit' = "ok" => (~Issued("COMMIT") \/ lastCommit = "ok")]_vars

\* The Transaction was committed and commit was called again.
C31_Witness ==
    /\ lastCommit = "ProtocolMisuse"
    /\ tx = "committed"
    /\ issued = <<"BEGIN", "COMMIT">>
    /\ since # {}
    /\ since \subseteq db

\* C32: a Receiver comes into being Busy, by a send; from Busy or HasResult
\* a receive takes it to HasResult or to Done, and to nowhere else; Done is
\* left only by the destruction of the Receiver, and a Done Receiver
\* returns no further Result.  isBusy, isDone and a receive refused after
\* Done take nothing from the handle and change no Receiver; isDone
\* answers true, and receive ends in a protocol-misuse error, only with a
\* Receiver that is Done.
C32_ReceiverStates ==
    /\ [][\A r \in Receivers :
            /\ (rstate'[r] # rstate[r] /\ rstate'[r] # "destroyed") =>
                 \/ rstate[r] \in {"none", "destroyed"} /\ rstate'[r] = "Busy"
                 \/ rstate[r] = "Busy" /\ rstate'[r] \in {"HasResult", "Done"}
                 \/ rstate[r] = "HasResult" /\ rstate'[r] = "Done"
            /\ rstate[r] = "Done" =>
                 /\ rstate'[r] \in {"Done", "destroyed"}
                 /\ nrecv'[r] = nrecv[r]
                 /\ last'[r] = last[r]
            /\ nrecv'[r] = nrecv[r] + 1 =>
                 (rstate[r] \in {"Busy", "HasResult"}
                    /\ rstate'[r] \in {"HasResult", "Done"})]_vars
    /\ [][(lastCall'.op \in {"isBusy", "isDone", "receive"}
             /\ lastCall' # lastCall) =>
            UNCHANGED <<owner, pending, prepared, okPrepared, rstate, rstmt,
                        runits, last, nrecv, calls>>]_vars
    /\ [][(lastCall'.op = "receive" /\ lastCall' # lastCall) =>
            /\ lastCall'.outcome = "ProtocolMisuse"
            /\ \E r \in Receivers : rstate[r] = "Done"]_vars
    /\ [][(lastCall'.op = "isDone" /\ lastCall'.outcome = "true"
             /\ lastCall' # lastCall) =>
            \E r \in Receivers : rstate[r] = "Done"]_vars

\* receive was called on the first Receiver after it was Done, while the
\* second Receiver's results were waiting on the handle: they still are.
C32_Witness ==
    /\ lastCall = [op |-> "receive", outcome |-> "ProtocolMisuse"]
    /\ rstate[1] = "Done"
    /\ rstate[2] = "Busy"
    /\ owner = 2
    /\ pending = runits[2]
    /\ pending # << >>

\* C33: under Graceful and Drop, in a pool that can have Workers, a
\* teardown that has begun is never stuck: as long as the destruction of the
\* Workers cannot complete, some Worker thread can still take a step
\* towards its return.
C33_TeardownTerminates ==
    (phase = "stopping" /\ ctx.shutdownPolicy \in {"GRACEFUL", "DROP"}
       /\ ctx.maxConcurrency >= 1) =>
        (ENABLED Teardown \/ \E w \in Workers : ENABLED ThreadStep(w))

====
